---- MODULE Spec2Model ----
(***************************************************************************)
(* Model of the sorting engine of main.py: SortingThread (grouping loop,   *)
(* conflict-safe move, media split, undo) over a filesystem of regular     *)
(* files and directories below the chosen root folder.                     *)
(*                                                                         *)
(* A character is a one-character string, a file name is a sequence of     *)
(* characters, a path is a sequence of names relative to the root folder   *)
(* (<<>> is the root itself).                                              *)
(***************************************************************************)
EXTENDS Integers, Sequences, FiniteSets, TLC

\* ------------------------------------------------------------------------
\* Bounds of the model
\* ------------------------------------------------------------------------
MaxFiles == 3        \* regular files directly under the root at Init
MaxFailures == 1     \* moves / rmdirs the environment lets fail in one behaviour
MaxUndo == 1         \* undo_sorting calls on one engine
MaxSorts == 2        \* clicks on "Sort Files" that start a SortingThread

\* ------------------------------------------------------------------------
\* Characters and strings
\* ------------------------------------------------------------------------
\* The characters of the model in ASCII order.
CharSeq ==
  <<" ", "*", "-", ".",
    "0", "1", "2", "3", "4", "5", "6", "7", "8", "9",
    "A", "B", "C", "D", "E", "F", "G", "H", "I", "J", "K", "L", "M",
    "N", "O", "P", "Q", "R", "S", "T", "U", "V", "W", "X", "Y", "Z",
    "_",
    "a", "b", "c", "d", "e", "f", "g", "h", "i", "j", "k", "l", "m",
    "n", "o", "p", "q", "r", "s", "t", "u", "v", "w", "x", "y", "z">>

Ord(c) == CHOOSE i \in 1..Len(CharSeq) : CharSeq[i] = c

DigitChars == <<"0", "1", "2", "3", "4", "5", "6", "7", "8", "9">>
UpperChars == SubSeq(CharSeq, 15, 40)
LowerChars == SubSeq(CharSeq, 42, 67)

Range(s) == {s[i] : i \in 1..Len(s)}

AlnumChars == Range(DigitChars) \cup Range(UpperChars) \cup Range(LowerChars)
IsAlnum(c) == c \in AlnumChars

\* str.lower() on one character
LowerOf == [c \in Range(UpperChars) |-> LowerChars[CHOOSE i \in 1..26 : UpperChars[i] = c]]
LowerChar(c) == IF c \in DOMAIN LowerOf THEN LowerOf[c] ELSE c

\* str.lower()
Lower(s) == [i \in 1..Len(s) |-> LowerChar(s[i])]

\* Python's comparison of two strings (s < t)
StrLess(s, t) ==
  \E k \in 0..Len(s) :
    /\ k <= Len(t)
    /\ \A i \in 1..k : s[i] = t[i]
    /\ \/ k = Len(s) /\ k < Len(t)
       \/ k < Len(s) /\ k < Len(t) /\ Ord(s[k + 1]) < Ord(t[k + 1])

\* s[i:i+k] of Python, 1-based start
Slice(s, i, k) == SubSeq(s, i, i + k - 1)

IsSubstring(k, s) ==
  \E i \in 1..(Len(s) - Len(k) + 1) : Slice(s, i, Len(k)) = k

\* str(n) for a natural number
RECURSIVE FormatInt(_)
FormatInt(n) ==
  IF n < 10 THEN <<DigitChars[n + 1]>>
  ELSE FormatInt(n \div 10) \o <<DigitChars[(n % 10) + 1]>>

\* os.path.splitext on a name: the extension starts at the last dot,
\* unless only dots precede it.
DotPositions(s) == {i \in 1..Len(s) : s[i] = "."}

SplitPos(s) ==
  IF DotPositions(s) = {} THEN 0
  ELSE LET d == CHOOSE i \in DotPositions(s) : \A j \in DotPositions(s) : j <= i
       IN  IF \E j \in 1..(d - 1) : s[j] # "." THEN d ELSE 0

SplitBase(s) == IF SplitPos(s) = 0 THEN s ELSE SubSeq(s, 1, SplitPos(s) - 1)
SplitExt(s) == IF SplitPos(s) = 0 THEN <<>> ELSE SubSeq(s, SplitPos(s), Len(s))

\* str.endswith
EndsWith(s, e) == Len(e) <= Len(s) /\ SubSeq(s, Len(s) - Len(e) + 1, Len(s)) = e

\* re.search(r'[a-zA-Z0-9]{4,}', s)
MinLength == 4
HasAlnumRun(s) ==
  \E i \in 1..(Len(s) - MinLength + 1) :
    \A j \in i..(i + MinLength - 1) : IsAlnum(s[j])

\* str.strip() for the blank character
RECURSIVE LStrip(_)
LStrip(s) == IF s # <<>> /\ Head(s) = " " THEN LStrip(Tail(s)) ELSE s
RECURSIVE RStrip(_)
RStrip(s) ==
  IF s # <<>> /\ s[Len(s)] = " " THEN RStrip(SubSeq(s, 1, Len(s) - 1)) ELSE s
Strip(s) == LStrip(RStrip(s))

\* ------------------------------------------------------------------------
\* find_common_sequence
\* ------------------------------------------------------------------------
\* SequenceMatcher(None, a, b).find_longest_match(0, len(a), 0, len(b)).
\* With autojunk (the default) and len(b) >= 200, the characters that occur
\* more than len(b) // 100 + 1 times in b are "popular" and are left out of
\* the index of b.  The search finds the longest block a[i:i+k] = b[j:j+k]
\* of indexed characters (among the longest the one that starts earliest in
\* a, then earliest in b; (0, 0, 0) when there is none), and then extends it
\* to the left and to the right as long as the characters agree.
AutojunkLen == 200

Popular(b) ==
  IF Len(b) >= AutojunkLen
    THEN {c \in Range(b) :
            Cardinality({j \in 1..Len(b) : b[j] = c}) > (Len(b) \div 100) + 1}
    ELSE {}

\* the number of positions from (i, j) on at which a and b agree on an
\* indexed character
CommonPrefixLen(a, b, pop, i, j) ==
  LET n == IF i > Len(a) \/ j > Len(b) THEN 0
           ELSE IF Len(a) - i <= Len(b) - j THEN Len(a) - i + 1 ELSE Len(b) - j + 1
      agree(x) == a[i + x] = b[j + x] /\ b[j + x] \notin pop
  IN  CHOOSE m \in 0..n : /\ m = n \/ ~agree(m)
                          /\ \A x \in 0..(m - 1) : agree(x)

\* the number of positions from (i, j) backwards at which a and b agree
CommonSuffixLen(a, b, i, j) ==
  LET n == IF i < 1 \/ j < 1 THEN 0 ELSE IF i <= j THEN i ELSE j
      agree(x) == a[i - x] = b[j - x]
  IN  CHOOSE m \in 0..n : /\ m = n \/ ~agree(m)
                          /\ \A x \in 0..(m - 1) : agree(x)

\* the largest / the smallest number of a non-empty set of numbers
MaxOf(S) == CHOOSE k \in S : \A m \in S : m <= k
MinOf(S) == CHOOSE k \in S : \A m \in S : k <= m

\* the longest indexed block of a that starts at position i
BlockAt(a, b, pop, i) ==
  MaxOf({CommonPrefixLen(a, b, pop, i, j) : j \in 1..Len(b)} \cup {0})

\* bestsize: the length of the longest block of indexed characters
BestSize(a, b, pop) == MaxOf({BlockAt(a, b, pop, i) : i \in 1..Len(a)} \cup {0})

\* besti: the earliest start in a of a block of length k
BestI(a, b, pop, k) ==
  IF k = 0 THEN 1 ELSE MinOf({i \in 1..Len(a) : BlockAt(a, b, pop, i) = k})

\* bestj: the earliest start in b of a block of length k that starts at besti
BestJ(a, b, pop, k, besti) ==
  IF k = 0 THEN 1
  ELSE MinOf({j \in 1..Len(b) : CommonPrefixLen(a, b, pop, besti, j) = k})

\* Match(a=.., size=..) with a 1-based start: the block and its extensions
MatchOf(besti, k, left, right) == [a |-> besti - left, size |-> k + left + right]

\* the block (besti, bestj, k) extended to the left and to the right while
\* the characters agree, popular or not
ExtendBlock(a, b, k, besti, bestj) ==
  MatchOf(besti, k,
          CommonSuffixLen(a, b, besti - 1, bestj - 1),
          CommonPrefixLen(a, b, {}, besti + k, bestj + k))

BlockFrom(a, b, pop, k, besti) ==
  ExtendBlock(a, b, k, besti, BestJ(a, b, pop, k, besti))

BlockOfSize(a, b, pop, k) == BlockFrom(a, b, pop, k, BestI(a, b, pop, k))

BlockFor(a, b, pop) == BlockOfSize(a, b, pop, BestSize(a, b, pop))

\* SequenceMatcher(None, a, b).find_longest_match(0, len(a), 0, len(b))
find_longest_match(a, b) == BlockFor(a, b, Popular(b))

NoMatch == <<>>

CommonOf(name1, match) ==
  LET common_str == Slice(name1, match.a, match.size)
  IN  IF match.size >= MinLength /\ HasAlnumRun(common_str) THEN common_str ELSE NoMatch

CommonOfNames(name1, name2) == CommonOf(name1, find_longest_match(name1, name2))

find_common_sequence(str1, str2) ==
  CommonOfNames(Lower(SplitBase(str1)), Lower(SplitBase(str2)))


\* ------------------------------------------------------------------------
\* Names
\* ------------------------------------------------------------------------
Miscellaneous == <<"M", "i", "s", "c", "e", "l", "l", "a", "n", "e", "o", "u", "s">>
Images == <<"I", "m", "a", "g", "e", "s">>
Videos == <<"V", "i", "d", "e", "o", "s">>
Common_Group == <<"C", "o", "m", "m", "o", "n", "_", "G", "r", "o", "u", "p">>

\* image_extensions and video_extensions of process_media_files
image_extensions ==
  {<<".", "j", "p", "g">>,
   <<".", "j", "p", "e", "g">>,
   <<".", "p", "n", "g">>,
   <<".", "g", "i", "f">>,
   <<".", "w", "e", "b", "p">>,
   <<".", "b", "m", "p">>,
   <<".", "t", "i", "f", "f">>,
   <<".", "t", "i", "f">>,
   <<".", "h", "e", "i", "c">>,
   <<".", "h", "e", "i", "f">>,
   <<".", "s", "v", "g">>,
   <<".", "e", "p", "s">>,
   <<".", "i", "c", "o">>,
   <<".", "p", "s", "d">>,
   <<".", "x", "c", "f">>,
   <<".", "r", "a", "w">>,
   <<".", "c", "r", "2">>,
   <<".", "n", "e", "f">>,
   <<".", "a", "r", "w">>,
   <<".", "d", "n", "g">>}

video_extensions ==
  {<<".", "m", "p", "4">>,
   <<".", "m", "k", "v">>,
   <<".", "a", "v", "i">>,
   <<".", "m", "o", "v">>,
   <<".", "w", "m", "v">>,
   <<".", "f", "l", "v">>,
   <<".", "w", "e", "b", "m">>,
   <<".", "m", "4", "v">>,
   <<".", "m", "p", "g">>,
   <<".", "m", "p", "e", "g">>,
   <<".", "3", "g", "p">>,
   <<".", "r", "m">>,
   <<".", "r", "m", "v", "b">>,
   <<".", "v", "o", "b">>,
   <<".", "t", "s">>,
   <<".", "m", "x", "f">>,
   <<".", "o", "g", "v">>}

IsImage(f) == LET l == Lower(f) IN \E e \in image_extensions : EndsWith(l, e)
IsVideo(f) == LET l == Lower(f) IN \E e \in video_extensions : EndsWith(l, e)

\* The file names a root folder of the model can hold.
F_repo1 == <<"r", "e", "p", "o", "1", ".", "j", "p", "g">>
F_repo2 == <<"R", "E", "P", "O", "2", ".", "M", "P", "4">>
F_repo3 == <<"r", "e", "p", "o", "3", ".", "t", "x", "t">>
F_repo == <<"r", "e", "p", "o">>
F_Misc == Miscellaneous
F_misc == <<"m", "i", "s", "c", ".", "t", "x", "t">>
F_zz == <<"z", "z", ".", "t", "x", "t">>
F_repo3misc == <<"r", "e", "p", "o", "3", "m", "i", "s", "c", ".", "t", "x", "t">>

NamePool == {F_repo1, F_repo2, F_repo3, F_repo, F_Misc, F_misc, F_zz, F_repo3misc}

\* Further names find_common_sequence is applied to: a shared part with a
\* symbol inside, two shared parts of the same length, and a name whose base
\* name has 200 characters.
F_abc1 == <<"a", "b", "c", "_", "1", ".", "t", "x", "t">>
F_abc2 == <<"a", "b", "c", "_", "2", ".", "t", "x", "t">>
F_dash_abcd == <<"-", "-", "-", "-", "a", "b", "c", "d", ".", "t", "x", "t">>
F_abcd_dash == <<"A", "B", "C", "D", "-", "-", "-", "-", ".", "t", "x", "t">>
F_zzzz == <<"z", "z", "z", "z", ".", "t", "x", "t">>
F_long == [i \in 1..196 |-> "-"] \o F_zzzz

FcsPool ==
  NamePool \cup {F_abc1, F_abc2, F_dash_abcd, F_abcd_dash, F_zzzz, F_long}

D_old == <<"o", "l", "d">>
D_repo == <<"r", "e", "p", "o">>


\* ------------------------------------------------------------------------
\* State
\* ------------------------------------------------------------------------
VARIABLES
  files,               \* the regular files below the root: path -> file identity
  dirs,                \* the directories below the root (the root itself is <<>>)
  moved_files,         \* SortingThread.moved_files
  media_sort_enabled,  \* SortingThread.media_sort_enabled
  pc,                  \* position of the worker in run() / undo_sorting()
  total_files,         \* run(): total_files
  processed_files,     \* run(): processed_files
  processed_count,     \* run(): processed_count
  todo,                \* the files the current for-loop has still to visit
  dest,                \* the folder the current for-loop moves into
  videos,              \* process_media_files(): videos of the current subdir
  subdirs,             \* process_media_files(): subdirs not yet processed
  image_count,         \* process_media_files(): image_count
  video_count,         \* process_media_files(): video_count
  uidx,                \* undo_sorting(): index of the next record to restore
  progress,            \* values emitted on update_progress
  status,              \* messages emitted on status_update
  finished,            \* number of SortingThread.finished_signal emissions
  undo_finished,       \* number of UndoThread.finished_signal emissions
  undos,               \* number of undo_sorting calls started
  failures,            \* moves / rmdirs that failed so far
  calls,               \* number of move_file_handling_conflicts calls so far
  last_call,           \* arguments and return value of the last such call
  init_root,           \* the names of the files directly under the root at Init
  init_pre,            \* the folders below the root at Init (index in PreConfigs)
  str1,                \* find_common_sequence(): first argument
  str2,                \* find_common_sequence(): second argument
  common,              \* find_common_sequence(): return value
  upc,                 \* position of the UndoThread in run() / undo_sorting()
  sorting_thread,      \* MainWindow.sorting_thread is set
  previous_session,    \* MainWindow.previous_session (<<>> for None)
  undo_button_hidden,  \* MainWindow.undo_button.isHidden()
  sort_button_disabled,\* not MainWindow.sort_button.isEnabled()
  sorts,               \* number of SortingThreads MainWindow has started
  handled_finished,    \* SortingThread.finished_signal emissions delivered
  handled_undo,        \* UndoThread.finished_signal emissions delivered
  undone_session       \* previous_session at the last click on Undo

vars ==
  <<files, dirs, moved_files, media_sort_enabled, pc, total_files,
    processed_files, processed_count, todo, dest, videos, subdirs,
    image_count, video_count, uidx, progress, status, finished,
    undo_finished, undos, failures, calls, last_call, init_root, init_pre,
    str1, str2, common, upc, sorting_thread, previous_session,
    undo_button_hidden, sort_button_disabled, sorts, handled_finished,
    handled_undo, undone_session>>

run_vars ==
  <<total_files, processed_files, processed_count, todo, dest>>
media_vars == <<videos, subdirs, image_count, video_count>>
undo_vars == <<uidx, undo_finished, undos, upc>>
fs_vars == <<files, dirs>>
call_vars == <<calls, last_call>>
fcs_vars == <<str1, str2, common>>
win_vars ==
  <<sorting_thread, previous_session, undo_button_hidden, sort_button_disabled,
    sorts, handled_finished, handled_undo, undone_session>>
const_vars == <<media_sort_enabled, init_root, init_pre, fcs_vars, win_vars>>

\* ------------------------------------------------------------------------
\* Filesystem
\* ------------------------------------------------------------------------
Root == <<>>
None == <<>>      \* the return value None of move_file_handling_conflicts

Last(p) == p[Len(p)]
Parent(p) == SubSeq(p, 1, Len(p) - 1)          \* os.path.dirname
Join(d, n) == Append(d, n)                     \* os.path.join

IsFile(p) == p \in DOMAIN files                \* os.path.isfile
IsDir(p) == p = Root \/ p \in dirs             \* os.path.isdir
Exists(p) == IsFile(p) \/ IsDir(p)             \* os.path.exists

IsPrefix(d, p) == Len(d) <= Len(p) /\ SubSeq(p, 1, Len(d)) = d

\* os.listdir(d)
ListDir(d) ==
  {p[Len(d) + 1] : p \in {q \in DOMAIN files \cup dirs : Parent(q) = d}}

\* get_all_files(): the names of the regular files directly under the root
get_all_files == {n \in ListDir(Root) : IsFile(Join(Root, n))}

\* the regular files directly inside directory d
FilesIn(d) == {n \in ListDir(d) : IsFile(Join(d, n))}

\* the orders in which a listing (or the iteration of a Python set) can
\* deliver the elements of S
Perms(S) ==
  {s \in [1..Cardinality(S) -> S] : \A i, j \in DOMAIN s : s[i] = s[j] => i = j}

\* os.makedirs(p, exist_ok=True): raises when p or one of its ancestors is a
\* regular file
MakedirsRaises(p) == \E k \in 1..Len(p) : IsFile(SubSeq(p, 1, k))
MakedirsDirs(p) == dirs \cup {SubSeq(p, 1, k) : k \in 1..Len(p)}

\* shutil.move(src, dst): into dst when dst is a directory, else onto dst
\* (os.rename, or copy and unlink, both replace a regular file at dst).
RealDst(src, dst) == IF IsDir(dst) THEN Join(dst, Last(src)) ELSE dst

ShutilMoveRaises(src, dst) ==
  LET real_dst == RealDst(src, dst)
  IN  \/ ~Exists(src)
      \/ src = Root
      \/ IsDir(dst) /\ Exists(real_dst)
      \/ ~IsDir(Parent(real_dst))
      \/ IsDir(src) /\ (IsFile(real_dst) \/ IsPrefix(src, real_dst))

Rebase(src, real_dst, p) ==
  IF IsPrefix(src, p) THEN real_dst \o SubSeq(p, Len(src) + 1, Len(p)) ELSE p

\* (variant of ShutilMoveFiles that copies and never unlinks the source)
ShutilCopyFiles(src, dst) ==
  LET real_dst == RealDst(src, dst)
      moved == {p \in DOMAIN files : IsPrefix(src, p)}
      target == {Rebase(src, real_dst, p) : p \in moved}
  IN  [q \in DOMAIN files \cup target |->
         IF q \in target
           THEN files[CHOOSE p \in moved : Rebase(src, real_dst, p) = q]
           ELSE files[q]]

ShutilMoveFiles(src, dst) ==
  LET real_dst == RealDst(src, dst)
      moved == {p \in DOMAIN files : IsPrefix(src, p)}
      target == {Rebase(src, real_dst, p) : p \in moved}
  IN  [q \in (DOMAIN files \ moved) \cup target |->
         IF q \in target
           THEN files[CHOOSE p \in moved : Rebase(src, real_dst, p) = q]
           ELSE files[q]]

ShutilMoveDirs(src, dst) ==
  {Rebase(src, RealDst(src, dst), d) : d \in dirs}

\* ------------------------------------------------------------------------
\* move_file_handling_conflicts
\* ------------------------------------------------------------------------
MaxCF == 99

\* f"{base}-CF{i}{ext}"
CFName(n, i) == SplitBase(n) \o <<"-", "C", "F">> \o FormatInt(i) \o SplitExt(n)
CFPath(dst, i) == Join(Parent(dst), CFName(Last(dst), i))

\* the suffixes i in 1..99 for which the probing loop finds new_dst unused
FreeSuffixes(dst) ==
  LET stem == Parent(dst) \o <<SplitBase(Last(dst)) \o <<"-", "C", "F">>>>
      ext == SplitExt(Last(dst))
      taken == {p \in DOMAIN files \cup dirs :
                  /\ Len(p) = Len(dst)
                  /\ Parent(p) = Parent(dst)
                  /\ Len(Last(p)) > Len(Last(stem))
                  /\ SubSeq(Last(p), 1, Len(Last(stem))) = Last(stem)}
  IN  {i \in 1..MaxCF : CFPath(dst, i) \notin taken}

\* (variant of FirstFree that keeps probing to the last unused suffix)
LastFree(S) == CHOOSE i \in S : \A j \in S : j <= i

\* the suffix the probing loop stops at
FirstFree(S) == CHOOSE i \in S : \A j \in S : i <= j

\* (variant of final_dst that keeps the last probed name when none is unused)
final_dst_last_probe(dst) ==
  IF ~Exists(dst) THEN dst
  ELSE LET free == FreeSuffixes(dst)
       IN  IF free = {} THEN CFPath(dst, MaxCF) ELSE CFPath(dst, FirstFree(free))

final_dst(dst) ==
  IF ~Exists(dst) THEN dst
  ELSE LET free == FreeSuffixes(dst)
       IN  IF free = {} THEN dst ELSE CFPath(dst, FirstFree(free))

\* the record appended to moved_files
LogMove(src, fdst) == Append(moved_files, <<src, fdst>>)

\* One call move_file_handling_conflicts(src, dst).  The move itself fails
\* when shutil.move raises: on its own conditions, or because the
\* environment refuses it (permissions, device errors).
move_file_handling_conflicts(src, dst) ==
  LET fdst == final_dst(dst)
      raises == ShutilMoveRaises(src, fdst)
  IN  /\ calls' = calls + 1
      /\ IF Exists(dst) /\ fdst = dst
           THEN /\ status' = Append(status, "TooManyConflicts")
                /\ last_call' = [src |-> src, dst |-> dst, ret |-> None]
                /\ UNCHANGED <<files, dirs, moved_files, failures>>
           ELSE /\ moved_files' = LogMove(src, fdst)
                /\ UNCHANGED status
                /\ \/ /\ ~raises
                      /\ files' = ShutilMoveFiles(src, fdst)
                      /\ dirs' = ShutilMoveDirs(src, fdst)
                      /\ last_call' = [src |-> src, dst |-> dst, ret |-> fdst]
                      /\ UNCHANGED failures
                   \/ /\ \/ raises /\ UNCHANGED failures
                         \/ /\ ~raises
                            /\ failures < MaxFailures
                            /\ failures' = failures + 1
                      /\ last_call' = [src |-> src, dst |-> dst, ret |-> None]
                      /\ UNCHANGED <<files, dirs>>

\* ------------------------------------------------------------------------
\* build_similarity_groups
\* ------------------------------------------------------------------------
\* itertools.combinations(files, 2) over the list ord, as index pairs
PairsOf(ord) == {pr \in (1..Len(ord)) \X (1..Len(ord)) : pr[1] < pr[2]}

PairKey(ord, pr) == find_common_sequence(ord[pr[1]], ord[pr[2]])

\* the keys of the dictionary groups
GroupKeys(ord) == {PairKey(ord, pr) : pr \in PairsOf(ord)} \ {NoMatch}

\* (variant of GroupMembers that puts every compared file into the group)
GroupMembersAll(ord, k) == Range(ord)

\* groups[k]
GroupMembers(ord, k) ==
  UNION {{ord[pr[1]], ord[pr[2]]} : pr \in {q \in PairsOf(ord) : PairKey(ord, q) = k}}

\* position at which key k was inserted into the dictionary
InsertRank(ord, k) ==
  LET ranks == {pr[1] * Len(ord) + pr[2] : pr \in {q \in PairsOf(ord) : PairKey(ord, q) = k}}
  IN  CHOOSE r \in ranks : \A r2 \in ranks : r <= r2

\* k1 precedes k2 in sorted(groups.items(), key=(len(members), len(key)),
\* reverse=True); the sort is stable
SortsBefore(ord, k1, k2) ==
  LET n1 == Cardinality(GroupMembers(ord, k1))
      n2 == Cardinality(GroupMembers(ord, k2))
  IN  \/ n1 > n2
      \/ n1 = n2 /\ Len(k1) > Len(k2)
      \/ n1 = n2 /\ Len(k1) = Len(k2) /\ InsertRank(ord, k1) < InsertRank(ord, k2)

\* (variant of FirstGroupKey that takes the end of the sorted list)
LastGroupKey(ord) ==
  CHOOSE k \in GroupKeys(ord) :
    \A k2 \in GroupKeys(ord) \ {k} : SortsBefore(ord, k2, k)

\* groups[0][0]
FirstGroupKey(ord) ==
  CHOOSE k \in GroupKeys(ord) :
    \A k2 \in GroupKeys(ord) \ {k} : SortsBefore(ord, k, k2)

\* the folder name run() derives from the key
InvalidChars == {"<", ">", "\"", "/", "\\", "|", "?", "*"}

Sanitize(s) == [i \in 1..Len(s) |-> IF s[i] \in InvalidChars THEN "_" ELSE s[i]]

FolderName(common_str) ==
  Sanitize(IF Strip(common_str) = <<>> THEN Common_Group ELSE Strip(common_str))

\* int(processed_count / total_files * 100); the float expression equals the
\* integer quotient for every total_files below 50
Percent(count, total) == (count * 100) \div total

\* ------------------------------------------------------------------------
\* Init
\* ------------------------------------------------------------------------
\* Contents a root folder can have below its own files: nothing, an empty
\* folder, or a folder that already holds the name d/f and some of the
\* names d/f-CF{n} of a file f of the root (needs).
PreName(f, n) == IF n = 0 THEN f ELSE CFName(f, n)

PreEmpty == [dirs |-> {}, files |-> {}, needs |-> {}]
PreOld == [dirs |-> {<<D_old>>}, files |-> {}, needs |-> {}]
\* a folder "old" that holds an image and a video
PreOldMedia ==
  [dirs |-> {<<D_old>>},
   files |-> {<<D_old, F_repo1>>, <<D_old, F_repo2>>},
   needs |-> {}]
PreMisc(occ) ==
  [dirs |-> {<<Miscellaneous>>},
   files |-> {<<Miscellaneous, PreName(F_zz, n)>> : n \in occ},
   needs |-> {F_zz}]
PreRepo == [dirs |-> {<<D_repo>>}, files |-> {<<D_repo, F_repo1>>}, needs |-> {F_repo1}]
\* a folder "repo" left by an earlier run with media split: repo/Images/f
PreRepoImages ==
  [dirs |-> {<<D_repo>>, <<D_repo, Images>>},
   files |-> {<<D_repo, Images, F_repo1>>},
   needs |-> {F_repo1, F_repo2}]

PreConfigs ==
  <<PreEmpty, PreOld, PreRepo, PreMisc({0, 1}), PreMisc({0, 2}),
    PreMisc(0..(MaxCF - 1)), PreMisc(0..MaxCF), PreRepoImages, PreOldMedia>>

\* the filesystem at Init: every file is its own identity
InitPaths == {<<n>> : n \in init_root} \cup PreConfigs[init_pre].files
InitDirs == PreConfigs[init_pre].dirs

\* MainWindow.__init__: no thread, no previous session, "Undo" hidden
WindowInit ==
  /\ sorting_thread = FALSE
  /\ previous_session = <<>>
  /\ undo_button_hidden = TRUE
  /\ sort_button_disabled = FALSE
  /\ sorts = 0
  /\ handled_finished = 0
  /\ handled_undo = 0
  /\ undone_session = <<>>

Init ==
  \E R \in SUBSET NamePool : \E k \in DOMAIN PreConfigs : \E m \in BOOLEAN :
    /\ Cardinality(R) <= MaxFiles
    /\ \A d \in PreConfigs[k].dirs : Last(d) \notin R
    /\ PreConfigs[k].needs \subseteq R
    /\ init_root = R
    /\ init_pre = k
    /\ files = [p \in {<<n>> : n \in R} \cup PreConfigs[k].files |-> p]
    /\ dirs = PreConfigs[k].dirs
    /\ media_sort_enabled = m
    /\ moved_files = <<>>
    /\ pc = "idle"
    /\ total_files = 0
    /\ processed_files = {}
    /\ processed_count = 0
    /\ todo = <<>>
    /\ dest = Root
    /\ videos = <<>>
    /\ subdirs = {}
    /\ image_count = 0
    /\ video_count = 0
    /\ uidx = 0
    /\ progress = <<>>
    /\ status = <<>>
    /\ finished = 0
    /\ undo_finished = 0
    /\ undos = 0
    /\ upc = "none"
    /\ WindowInit
    /\ failures = 0
    /\ calls = 0
    /\ last_call = [src |-> Root, dst |-> Root, ret |-> None]
    /\ str1 = <<>>
    /\ str2 = <<>>
    /\ common = NoMatch

\* ------------------------------------------------------------------------
\* SortingThread.run
\* ------------------------------------------------------------------------
\* (variant of RunStart without the early return on an empty folder)
RunStartNoEmptyCheck ==
  /\ pc = "idle"
  /\ total_files' = Cardinality(get_all_files)
  /\ status' = Append(status, "Phase1")
  /\ pc' = "loop"
  /\ processed_files' = {}
  /\ processed_count' = 0
  /\ UNCHANGED <<todo, dest, moved_files, progress, failures, finished>>
  /\ UNCHANGED <<fs_vars, media_vars, undo_vars, call_vars, const_vars>>

RunStart ==
  /\ pc = "idle"
  /\ total_files' = Cardinality(get_all_files)
  /\ IF Cardinality(get_all_files) = 0
       THEN /\ status' = Append(status, "NoFiles")
            /\ finished' = finished + 1
            /\ pc' = "done"
       ELSE /\ status' = Append(status, "Phase1")
            /\ pc' = "loop"
            /\ UNCHANGED finished
  /\ processed_files' = {}
  /\ processed_count' = 0
  /\ UNCHANGED <<todo, dest, moved_files, progress, failures>>
  /\ UNCHANGED <<fs_vars, media_vars, undo_vars, call_vars, const_vars>>

\* (variant of remaining_files that forgets to drop the processed files)
remaining_unfiltered == get_all_files

\* remaining_files, as a set
remaining_files == get_all_files \ processed_files

LoopExit ==
  /\ pc = "loop"
  /\ remaining_files = {}
  /\ pc' = "after_loop"
  /\ UNCHANGED <<moved_files, progress, status, finished, failures>>
  /\ UNCHANGED <<run_vars, fs_vars, media_vars, undo_vars, call_vars, const_vars>>

\* no group: everything left goes to "Miscellaneous"
LoopMisc ==
  /\ pc = "loop"
  /\ remaining_files # {}
  /\ \E ord \in Perms(remaining_files) :
       /\ GroupKeys(ord) = {}
       /\ IF MakedirsRaises(<<Miscellaneous>>)
            THEN /\ pc' = "crashed"
                 /\ UNCHANGED <<dirs, todo, dest>>
            ELSE /\ dirs' = MakedirsDirs(<<Miscellaneous>>)
                 /\ todo' = ord
                 /\ dest' = <<Miscellaneous>>
                 /\ pc' = "misc"
  /\ UNCHANGED <<files, moved_files, progress, status, finished, failures>>
  /\ UNCHANGED <<total_files, processed_files, processed_count>>
  /\ UNCHANGED <<media_vars, undo_vars, call_vars, const_vars>>

\* the first group of the sorted list gets its folder
LoopGroup ==
  /\ pc = "loop"
  /\ remaining_files # {}
  /\ \E ord \in Perms(remaining_files) :
       /\ GroupKeys(ord) # {}
       /\ LET common_str == FirstGroupKey(ord)
              folder_path == Join(Root, FolderName(common_str))
          IN  IF MakedirsRaises(folder_path)
                THEN /\ pc' = "crashed"
                     /\ UNCHANGED <<dirs, todo, dest>>
                ELSE /\ dirs' = MakedirsDirs(folder_path)
                     /\ \E it \in Perms(GroupMembers(ord, common_str)) : todo' = it
                     /\ dest' = folder_path
                     /\ pc' = "group"
  /\ UNCHANGED <<files, moved_files, progress, status, finished, failures>>
  /\ UNCHANGED <<total_files, processed_files, processed_count>>
  /\ UNCHANGED <<media_vars, undo_vars, call_vars, const_vars>>

\* one iteration of "for file in file_set"; after the last one the progress
\* is emitted once more and the while loop starts over
GroupMove ==
  /\ pc = "group"
  /\ todo # <<>>
  /\ LET file == Head(todo)
         src == Join(Root, file)
         moving == file \notin processed_files /\ Exists(src)
         count == IF moving THEN processed_count + 1 ELSE processed_count
         emitted == IF moving
                      THEN Append(progress, Percent(count, total_files))
                      ELSE progress
     IN  /\ IF moving
              THEN /\ move_file_handling_conflicts(src, Join(dest, file))
                   /\ processed_files' = processed_files \cup {file}
              ELSE UNCHANGED <<fs_vars, moved_files, status, failures, call_vars,
                               processed_files>>
         /\ processed_count' = count
         /\ progress' = IF Tail(todo) = <<>>
                          THEN Append(emitted, Percent(count, total_files))
                          ELSE emitted
  /\ todo' = Tail(todo)
  /\ pc' = IF Tail(todo) = <<>> THEN "loop" ELSE "group"
  /\ UNCHANGED <<total_files, dest, finished>>
  /\ UNCHANGED <<media_vars, undo_vars, const_vars>>

\* one iteration of "for file in remaining_files"; after the last one the
\* while loop is left
MiscMove ==
  /\ pc = "misc"
  /\ todo # <<>>
  /\ LET file == Head(todo)
     IN  /\ move_file_handling_conflicts(Join(Root, file), Join(dest, file))
         /\ processed_files' = processed_files \cup {file}
         /\ processed_count' = processed_count + 1
         /\ progress' = Append(progress, Percent(processed_count + 1, total_files))
  /\ todo' = Tail(todo)
  /\ pc' = IF Tail(todo) = <<>> THEN "after_loop" ELSE "misc"
  /\ UNCHANGED <<total_files, dest, finished>>
  /\ UNCHANGED <<media_vars, undo_vars, const_vars>>

\* ------------------------------------------------------------------------
\* process_media_files
\* ------------------------------------------------------------------------
\* after the grouping loop: second phase if enabled
AfterLoop ==
  /\ pc = "after_loop"
  /\ IF media_sort_enabled
       THEN /\ status' = Append(status, "Phase2")
            /\ subdirs' = {Join(Root, item) : item \in
                             {n \in ListDir(Root) : IsDir(Join(Root, n))} \ {Images, Videos}}
            /\ pc' = "media"
       ELSE /\ pc' = "finish"
            /\ UNCHANGED <<status, subdirs>>
  /\ image_count' = 0
  /\ video_count' = 0
  /\ UNCHANGED <<videos, moved_files, progress, finished, failures>>
  /\ UNCHANGED <<run_vars, fs_vars, undo_vars, call_vars, const_vars>>

\* "for subdir in subdirs": list the subdir, pick its images and videos
MediaSubdir ==
  /\ pc = "media"
  /\ \E subdir \in subdirs :
       /\ subdirs' = subdirs \ {subdir}
       /\ dest' = subdir
       /\ IF IsDir(subdir)
            THEN /\ \E im \in Perms({f \in FilesIn(subdir) : IsImage(f)}) : todo' = im
                 /\ \E vi \in Perms({f \in FilesIn(subdir) : IsVideo(f)}) : videos' = vi
                 /\ pc' = "m_images"
            \* os.listdir raises for a subdir that has been removed meanwhile
            ELSE /\ pc' = "crashed"
                 /\ UNCHANGED <<todo, videos>>
  /\ UNCHANGED <<image_count, video_count, moved_files, progress, status, finished, failures>>
  /\ UNCHANGED <<total_files, processed_files, processed_count>>
  /\ UNCHANGED <<fs_vars, undo_vars, call_vars, const_vars>>

\* "if images:" and the creation of the Images subfolder
MediaImagesDir ==
  /\ pc = "m_images"
  /\ IF todo = <<>>
       THEN pc' = "m_videos" /\ UNCHANGED dirs
       ELSE IF MakedirsRaises(Join(dest, Images))
         THEN pc' = "crashed" /\ UNCHANGED dirs
         ELSE pc' = "m_img_move" /\ dirs' = MakedirsDirs(Join(dest, Images))
  /\ UNCHANGED <<files, moved_files, progress, status, finished, failures>>
  /\ UNCHANGED <<run_vars, media_vars, undo_vars, call_vars, const_vars>>

\* one iteration of "for file in images"
MediaImageMove ==
  /\ pc = "m_img_move"
  /\ todo # <<>>
  /\ move_file_handling_conflicts(Join(dest, Head(todo)),
                                  Join(Join(dest, Images), Head(todo)))
  /\ image_count' = image_count + 1
  /\ todo' = Tail(todo)
  /\ pc' = IF Tail(todo) = <<>> THEN "m_videos" ELSE "m_img_move"
  /\ UNCHANGED <<dest, videos, subdirs, video_count, progress, finished>>
  /\ UNCHANGED <<total_files, processed_files, processed_count>>
  /\ UNCHANGED <<undo_vars, const_vars>>

\* (variant of MediaVideosDir that never handles the videos)
MediaVideosSkipped ==
  /\ pc = "m_videos"
  /\ pc' = "media"
  /\ UNCHANGED <<files, dirs, moved_files, progress, status, finished, failures>>
  /\ UNCHANGED <<run_vars, media_vars, undo_vars, call_vars, const_vars>>

\* "if videos:" and the creation of the Videos subfolder
MediaVideosDir ==
  /\ pc = "m_videos"
  /\ IF videos = <<>>
       THEN pc' = "media" /\ UNCHANGED dirs
       ELSE IF MakedirsRaises(Join(dest, Videos))
         THEN pc' = "crashed" /\ UNCHANGED dirs
         ELSE pc' = "m_vid_move" /\ dirs' = MakedirsDirs(Join(dest, Videos))
  /\ UNCHANGED <<files, moved_files, progress, status, finished, failures>>
  /\ UNCHANGED <<run_vars, media_vars, undo_vars, call_vars, const_vars>>

\* one iteration of "for file in videos"
MediaVideoMove ==
  /\ pc = "m_vid_move"
  /\ videos # <<>>
  /\ move_file_handling_conflicts(Join(dest, Head(videos)),
                                  Join(Join(dest, Videos), Head(videos)))
  /\ video_count' = video_count + 1
  /\ videos' = Tail(videos)
  /\ pc' = IF Tail(videos) = <<>> THEN "media" ELSE "m_vid_move"
  /\ UNCHANGED <<dest, todo, subdirs, image_count, progress, finished>>
  /\ UNCHANGED <<total_files, processed_files, processed_count>>
  /\ UNCHANGED <<undo_vars, const_vars>>

\* all subdirs done: the closing status message
MediaEnd ==
  /\ pc = "media"
  /\ subdirs = {}
  /\ status' = IF image_count > 0 \/ video_count > 0
                 THEN Append(status, "SortedMedia") ELSE status
  /\ pc' = "finish"
  /\ UNCHANGED <<moved_files, progress, finished, failures>>
  /\ UNCHANGED <<run_vars, fs_vars, media_vars, undo_vars, call_vars, const_vars>>

\* update_progress.emit(100); finished_signal.emit()
RunFinish ==
  /\ pc = "finish"
  /\ progress' = Append(progress, 100)
  /\ finished' = finished + 1
  /\ pc' = "done"
  /\ UNCHANGED <<moved_files, status, failures>>
  /\ UNCHANGED <<run_vars, fs_vars, media_vars, undo_vars, call_vars, const_vars>>

\* ------------------------------------------------------------------------
\* SortingThread.undo_sorting, called by UndoThread.run
\* ------------------------------------------------------------------------
\* UndoThread(sorting_thread).start() up to the evaluation of
\* reversed(self.moved_files)
UndoThreadStart ==
  /\ undos' = undos + 1
  /\ uidx' = Len(moved_files)
  /\ upc' = "undo"

\* an UndoThread is started on a SortingThread whose run() has returned
UndoStart ==
  /\ pc = "done"
  /\ upc # "undo"
  /\ undos < MaxUndo
  /\ UndoThreadStart
  /\ UNCHANGED <<pc, undo_finished, moved_files, progress, status, finished, failures>>
  /\ UNCHANGED <<run_vars, fs_vars, media_vars, call_vars, const_vars>>

\* the directories after "if not os.path.exists(parent_dir): os.makedirs(..)"
RestoreDirs(original_path) ==
  IF Exists(Parent(original_path)) \/ MakedirsRaises(Parent(original_path))
    THEN dirs
    ELSE MakedirsDirs(Parent(original_path))

\* the restore of one record raises (and is logged and skipped)
RestoreRaises(original_path, current_path) ==
  \/ ~Exists(Parent(original_path)) /\ MakedirsRaises(Parent(original_path))
  \/ ShutilMoveRaises(current_path, original_path)

\* (variant of UndoRestore in which a restore that raises ends the loop)
UndoRestoreOrAbort ==
  /\ upc = "undo"
  /\ uidx > 0
  /\ LET original_path == moved_files[uidx][1]
         current_path == moved_files[uidx][2]
     IN  IF ~Exists(current_path)
           THEN UNCHANGED <<fs_vars, failures>> /\ uidx' = uidx - 1
           ELSE \/ /\ ~RestoreRaises(original_path, current_path)
                   /\ files' = ShutilMoveFiles(current_path, original_path)
                   /\ dirs' = ShutilMoveDirs(current_path, original_path)
                   /\ uidx' = uidx - 1
                   /\ UNCHANGED failures
                \/ /\ \/ RestoreRaises(original_path, current_path) /\ UNCHANGED failures
                      \/ /\ ~RestoreRaises(original_path, current_path)
                         /\ failures < MaxFailures
                         /\ failures' = failures + 1
                   /\ dirs' = RestoreDirs(original_path)
                   /\ uidx' = 0
                   /\ UNCHANGED files
  /\ UNCHANGED <<pc, upc, undo_finished, undos, moved_files, progress, status, finished>>
  /\ UNCHANGED <<run_vars, media_vars, call_vars, const_vars>>

\* one iteration of "for original_path, current_path in reversed(moved_files)"
UndoRestore ==
  /\ upc = "undo"
  /\ uidx > 0
  /\ LET original_path == moved_files[uidx][1]
         current_path == moved_files[uidx][2]
     IN  IF ~Exists(current_path)
           THEN UNCHANGED <<fs_vars, failures>>
           ELSE \/ /\ ~RestoreRaises(original_path, current_path)
                   /\ files' = ShutilMoveFiles(current_path, original_path)
                   /\ dirs' = ShutilMoveDirs(current_path, original_path)
                   /\ UNCHANGED failures
                \/ /\ \/ RestoreRaises(original_path, current_path) /\ UNCHANGED failures
                      \/ /\ ~RestoreRaises(original_path, current_path)
                         /\ failures < MaxFailures
                         /\ failures' = failures + 1
                   /\ dirs' = RestoreDirs(original_path)
                   /\ UNCHANGED files
  /\ uidx' = uidx - 1
  /\ UNCHANGED <<pc, upc, undo_finished, undos, moved_files, progress, status, finished>>
  /\ UNCHANGED <<run_vars, media_vars, call_vars, const_vars>>

\* The bottom-up os.walk after the restores: a directory is handed out after
\* the directories below it, and removed if it is empty then, unless
\* os.rmdir fails.  Hollow(d): no regular file anywhere below d.
Hollow(d) == \A p \in DOMAIN files : ~IsPrefix(d, p)

\* the directories left when the removals of the directories in F fail
WalkDirs(F) == {d \in dirs : ~Hollow(d) \/ \E e \in F : IsPrefix(d, e)}

\* The walk, and the finished_signal of UndoThread.run.
UndoCleanup ==
  /\ upc = "undo"
  /\ uidx = 0
  /\ \E F \in SUBSET {d \in dirs : Hollow(d)} :
       /\ Cardinality(F) <= MaxFailures - failures
       /\ \A d, e \in F : IsPrefix(d, e) => d = e
       /\ dirs' = WalkDirs(F)
       /\ failures' = failures + Cardinality(F)
  /\ undo_finished' = undo_finished + 1
  /\ upc' = "done"
  /\ UNCHANGED <<pc, files, uidx, undos, moved_files, progress, status, finished>>
  /\ UNCHANGED <<run_vars, media_vars, call_vars, const_vars>>

\* ------------------------------------------------------------------------
\* find_common_sequence on its own
\* ------------------------------------------------------------------------
FcsInit ==
  /\ str1 \in FcsPool
  /\ str2 \in FcsPool
  /\ common = NoMatch
  /\ pc = "fcs_call"
  /\ init_root = {}
  /\ init_pre = 1
  /\ files = <<>>
  /\ dirs = {}
  /\ media_sort_enabled = FALSE
  /\ moved_files = <<>>
  /\ total_files = 0
  /\ processed_files = {}
  /\ processed_count = 0
  /\ todo = <<>>
  /\ dest = Root
  /\ videos = <<>>
  /\ subdirs = {}
  /\ image_count = 0
  /\ video_count = 0
  /\ uidx = 0
  /\ progress = <<>>
  /\ status = <<>>
  /\ finished = 0
  /\ undo_finished = 0
  /\ undos = 0
  /\ upc = "none"
  /\ WindowInit
  /\ failures = 0
  /\ calls = 0
  /\ last_call = [src |-> Root, dst |-> Root, ret |-> None]

FcsCall ==
  /\ pc = "fcs_call"
  /\ common' = find_common_sequence(str1, str2)
  /\ pc' = "fcs_ret"
  /\ UNCHANGED <<str1, str2, media_sort_enabled, init_root, init_pre, win_vars>>
  /\ UNCHANGED <<moved_files, progress, status, finished, failures>>
  /\ UNCHANGED <<run_vars, fs_vars, media_vars, undo_vars, call_vars>>

FcsNext == FcsCall

FcsSpec == FcsInit /\ [][FcsNext]_vars

\* ------------------------------------------------------------------------
\* Specification
\* ------------------------------------------------------------------------
Next ==
  \/ RunStart
  \/ LoopExit
  \/ LoopMisc
  \/ LoopGroup
  \/ GroupMove
  \/ MiscMove
  \/ AfterLoop
  \/ MediaSubdir
  \/ MediaImagesDir
  \/ MediaImageMove
  \/ MediaVideosDir
  \/ MediaVideoMove
  \/ MediaEnd
  \/ RunFinish
  \/ UndoStart
  \/ UndoRestore
  \/ UndoCleanup

Spec == Init /\ [][Next]_vars

\* A started UndoThread keeps running: each step of undo_sorting is taken.
FairSpec == Spec /\ WF_vars(UndoRestore) /\ WF_vars(UndoCleanup)

\* ------------------------------------------------------------------------
\* MainWindow
\* ------------------------------------------------------------------------
\* the files of the folder the window sorts
WinPool == {F_repo1, F_repo2, F_zz}

\* the window after __init__, before the first click
WinInit ==
  \E R \in SUBSET WinPool :
    /\ init_root = R
    /\ init_pre = 1
    /\ files = [p \in {<<n>> : n \in R} |-> p]
    /\ dirs = {}
    /\ media_sort_enabled = FALSE
    /\ moved_files = <<>>
    /\ pc = "none"
    /\ total_files = 0
    /\ processed_files = {}
    /\ processed_count = 0
    /\ todo = <<>>
    /\ dest = Root
    /\ videos = <<>>
    /\ subdirs = {}
    /\ image_count = 0
    /\ video_count = 0
    /\ uidx = 0
    /\ progress = <<>>
    /\ status = <<>>
    /\ finished = 0
    /\ undo_finished = 0
    /\ undos = 0
    /\ upc = "none"
    /\ WindowInit
    /\ failures = 0
    /\ calls = 0
    /\ last_call = [src |-> Root, dst |-> Root, ret |-> None]
    /\ str1 = <<>>
    /\ str2 = <<>>
    /\ common = NoMatch

\* the SortingThread of the window has been started and run() has not
\* returned or raised yet
SortRunning ==
  pc \in {"idle", "loop", "group", "misc", "after_loop", "media", "m_images",
          "m_img_move", "m_videos", "m_vid_move", "finish"}

\* self.sorting_thread = SortingThread(folder_path) with the media checkbox,
\* and .start(): a fresh engine at the beginning of run()
NewSortingThread ==
  /\ moved_files' = <<>>
  /\ media_sort_enabled' \in BOOLEAN
  /\ pc' = "idle"
  /\ total_files' = 0
  /\ processed_files' = {}
  /\ processed_count' = 0
  /\ todo' = <<>>
  /\ dest' = Root
  /\ videos' = <<>>
  /\ subdirs' = {}
  /\ image_count' = 0
  /\ video_count' = 0
  /\ progress' = <<>>
  /\ status' = <<>>
  /\ calls' = 0
  /\ last_call' = [src |-> Root, dst |-> Root, ret |-> None]

\* The same assignment while the SortingThread it replaces is still running:
\* from here two SortingThreads work on the folder, and the model follows
\* the window no further (pc = "replaced").
ReplaceRunningThread ==
  /\ pc' = "replaced"
  /\ UNCHANGED <<moved_files, media_sort_enabled, progress, status>>
  /\ UNCHANGED <<run_vars, media_vars, call_vars>>

\* A click on "Sort Files" (the folder of folder_input exists).  The model
\* follows the window while the click does not replace a SortingThread that
\* an UndoThread is working on.
start_sorting ==
  /\ ~sort_button_disabled
  /\ sorts < MaxSorts
  /\ pc # "replaced"
  /\ upc # "undo"
  /\ previous_session' = IF sorting_thread /\ moved_files # <<>>
                            THEN moved_files ELSE previous_session
  /\ undo_button_hidden' = FALSE
  /\ sort_button_disabled' = TRUE
  /\ sorting_thread' = TRUE
  /\ sorts' = sorts + 1
  /\ IF SortRunning THEN ReplaceRunningThread ELSE NewSortingThread
  /\ UNCHANGED <<handled_finished, handled_undo, undone_session>>
  /\ UNCHANGED <<fs_vars, undo_vars, fcs_vars, finished, failures, init_root, init_pre>>

\* the slot of SortingThread.finished_signal
sorting_finished ==
  /\ handled_finished < finished
  /\ handled_finished' = handled_finished + 1
  /\ sort_button_disabled' = FALSE
  /\ UNCHANGED <<sorting_thread, previous_session, undo_button_hidden, sorts,
                 handled_undo, undone_session>>
  /\ UNCHANGED <<moved_files, pc, progress, status, finished, failures>>
  /\ UNCHANGED <<media_sort_enabled, init_root, init_pre, fcs_vars>>
  /\ UNCHANGED <<run_vars, fs_vars, media_vars, undo_vars, call_vars>>

\* A click on the undo button (MainWindow.undo_sorting).  The model follows
\* the window while the click does not replace a running UndoThread and no
\* running SortingThread has been replaced.
undo_sorting ==
  /\ ~undo_button_hidden
  /\ undos < MaxUndo
  /\ pc # "replaced"
  /\ upc # "undo"
  /\ undone_session' = previous_session
  /\ IF previous_session # <<>>
       THEN /\ previous_session' = <<>>
            /\ UndoThreadStart
       ELSE /\ UNCHANGED previous_session
            /\ IF sorting_thread
                 THEN UndoThreadStart
                 ELSE UNCHANGED <<undos, uidx, upc>>
  /\ UNCHANGED <<sorting_thread, undo_button_hidden, sort_button_disabled, sorts,
                 handled_finished, handled_undo>>
  /\ UNCHANGED <<undo_finished, moved_files, pc, progress, status, finished, failures>>
  /\ UNCHANGED <<media_sort_enabled, init_root, init_pre, fcs_vars>>
  /\ UNCHANGED <<run_vars, fs_vars, media_vars, call_vars>>

\* the slot of UndoThread.finished_signal
undo_complete ==
  /\ handled_undo < undo_finished
  /\ handled_undo' = handled_undo + 1
  /\ undo_button_hidden' = TRUE
  /\ sort_button_disabled' = FALSE
  /\ UNCHANGED <<sorting_thread, previous_session, sorts, handled_finished,
                 undone_session>>
  /\ UNCHANGED <<moved_files, pc, progress, status, finished, failures>>
  /\ UNCHANGED <<media_sort_enabled, init_root, init_pre, fcs_vars>>
  /\ UNCHANGED <<run_vars, fs_vars, media_vars, undo_vars, call_vars>>

WindowNext ==
  \/ start_sorting
  \/ sorting_finished
  \/ undo_sorting
  \/ undo_complete
  \/ RunStart
  \/ LoopExit
  \/ LoopMisc
  \/ LoopGroup
  \/ GroupMove
  \/ MiscMove
  \/ AfterLoop
  \/ MediaSubdir
  \/ MediaImagesDir
  \/ MediaImageMove
  \/ MediaVideosDir
  \/ MediaVideoMove
  \/ MediaEnd
  \/ RunFinish
  \/ UndoRestore
  \/ UndoCleanup

WindowSpec == WinInit /\ [][WindowNext]_vars

TypeOK ==
  /\ pc \in {"idle", "loop", "group", "misc", "after_loop", "media", "m_images",
             "m_img_move", "m_videos", "m_vid_move", "finish", "done", "crashed",
             "none", "replaced", "fcs_call", "fcs_ret"}
  /\ upc \in {"none", "undo", "done"}
  /\ failures \in 0..MaxFailures
  /\ undos \in 0..MaxUndo

\* ------------------------------------------------------------------------
\* Properties
\* ------------------------------------------------------------------------
\* a step that is one call of move_file_handling_conflicts
CallStep == calls' = calls + 1

\* the suffixes n in 1..99 for which {base}-CF{n}{ext} is unused
UnusedSuffixes(dst) == {i \in 1..MaxCF : ~Exists(CFPath(dst, i))}

\* the destination and all 99 suffixed names exist
AllTaken(dst) == Exists(dst) /\ UnusedSuffixes(dst) = {}

\* the records of the move log whose original path is the root file n
RecordsOf(n) == {i \in DOMAIN moved_files : moved_files[i][1] = <<n>>}

\* the substrings of the lower-cased base name of n that can be a group key
KeysOf(n) ==
  LET b == Lower(SplitBase(n))
  IN  UNION {{Slice(b, i, k) : k \in MinLength..(Len(b) - i + 1)} : i \in 1..Len(b)}

\* p lies directly in "Miscellaneous" or in the folder of a key of n
GroupingDest(n, p) ==
  /\ Len(p) = 2
  /\ \/ p[1] = Miscellaneous
     \/ \E k \in KeysOf(n) : IsSubstring(k, Lower(SplitBase(n))) /\ FolderName(k) = p[1]

\* the run has left run(): by return or by an exception
RunOver == pc \in {"done", "crashed"}

Exhaustion == \E i \in DOMAIN status : status[i] = "TooManyConflicts"

\* C1 (as claimed): a root folder that held only regular files holds, after
\* a completed run and a completed undo without move failures, exactly its
\* original files directly under the root and no directory.
C1_RoundTrip ==
  (finished = 1 /\ undo_finished = 1 /\ upc = "done" /\ InitDirs = {} /\ failures = 0)
    => (dirs = {} /\ DOMAIN files = InitPaths)

\* C2 (as claimed): when run() has completed, every file name that was
\* directly under the root at run start is the original path of exactly one
\* record, whose destination is a group folder or "Miscellaneous".
C2_ExactlyOneRecord ==
  finished = 1 =>
    \A n \in init_root :
      /\ Cardinality(RecordsOf(n)) = 1
      /\ \A i \in RecordsOf(n) : GroupingDest(n, moved_files[i][2])

\* C2 (amended): at the end of the grouping phase every file name that was
\* directly under the root at run start is the original path of exactly one
\* record, whose destination is a group folder or "Miscellaneous", unless its
\* destination and all 99 suffixed names were taken: then it has no record
\* and is still at the root.  No later step adds a record for a root file.
C2_OneRecordUnlessExhausted ==
  /\ pc = "after_loop" =>
       \A n \in init_root :
         \/ /\ Cardinality(RecordsOf(n)) = 1
            /\ \A i \in RecordsOf(n) : GroupingDest(n, moved_files[i][2])
         \/ /\ RecordsOf(n) = {}
            /\ IsFile(<<n>>)
            /\ Exhaustion
            /\ \E d \in dirs : Len(d) = 1 /\ AllTaken(Join(d, n))
  /\ finished = 1 =>
       \A n \in init_root :
         /\ Cardinality(RecordsOf(n)) <= 1
         /\ \A i \in RecordsOf(n) : GroupingDest(n, moved_files[i][2])
         /\ RecordsOf(n) = {} => Exhaustion

\* a completed run in which one root file has its record and another one,
\* whose names were all taken, has none
C2_Witness ==
  /\ finished = 1
  /\ pc = "done"
  /\ \E n \in init_root : RecordsOf(n) = {} /\ IsFile(<<n>>)
  /\ \E n \in init_root : Cardinality(RecordsOf(n)) = 1 /\ ~IsFile(<<n>>)

\* C3 (as claimed): whatever the root holds and however the moves end, a run
\* that has stopped has emitted finished_signal.
C3_RunReportsCompletion == RunOver => finished = 1

\* C4 (as claimed): an undo on an engine with an empty move log changes
\* neither the files nor the directories below the root, and emits the
\* finished signal of the undo.
C4_EmptyLogUndoNoMutation ==
  [][(upc = "undo" /\ moved_files = <<>>) =>
       (files' = files /\ dirs' = dirs /\ undo_finished' = undo_finished + 1)]_vars

\* C5 (as claimed): a call whose destination exists returns the
\* lexicographically first unused name among {base}-CF{n}{ext}, n in 1..99.
C5_LexicographicallyFirst ==
  [][(CallStep /\ Exists(last_call'.dst) /\ last_call'.ret # None) =>
       \E n \in UnusedSuffixes(last_call'.dst) :
         /\ last_call'.ret = CFPath(last_call'.dst, n)
         /\ \A m \in UnusedSuffixes(last_call'.dst) :
              ~StrLess(CFName(Last(last_call'.dst), m), CFName(Last(last_call'.dst), n))]_vars

\* C5 (amended): a call whose destination exists returns the unused name
\* {base}-CF{n}{ext} with the smallest number n in 1..99.
C5_SmallestUnusedNumber ==
  [][(CallStep /\ Exists(last_call'.dst) /\ last_call'.ret # None) =>
       \E n \in UnusedSuffixes(last_call'.dst) :
         /\ last_call'.ret = CFPath(last_call'.dst, n)
         /\ \A m \in UnusedSuffixes(last_call'.dst) : n <= m]_vars

\* the last call found its destination and -CF1 taken, -CF2 and -CF10 unused,
\* and moved the file to -CF2
C5_Witness ==
  /\ calls > 0
  /\ last_call.ret = CFPath(last_call.dst, 2)
  /\ IsFile(last_call.dst)
  /\ IsFile(CFPath(last_call.dst, 1))
  /\ IsFile(CFPath(last_call.dst, 2))
  /\ ~Exists(CFPath(last_call.dst, 10))

\* C6: a call whose destination and 99 suffixed names all exist emits the
\* status message, moves nothing, appends nothing to the move log and
\* returns None; the loop of the run goes on with the next file.
C6_ConflictExhaustion ==
  [][(CallStep /\ AllTaken(last_call'.dst)) =>
       /\ status' = Append(status, "TooManyConflicts")
       /\ files' = files
       /\ dirs' = dirs
       /\ moved_files' = moved_files
       /\ last_call'.ret = None
       /\ pc' # "crashed"
       /\ pc \in {"group", "misc"} =>
            /\ todo' = Tail(todo)
            /\ todo' # <<>> => pc' = pc]_vars

\* the first file of a "Miscellaneous" batch was refused for exhaustion, is
\* still at the root, and the loop has more files to go
C6_Witness ==
  /\ pc = "misc"
  /\ todo # <<>>
  /\ calls = 1
  /\ status = <<"Phase1", "TooManyConflicts">>
  /\ last_call.ret = None
  /\ IsFile(last_call.src)
  /\ moved_files = <<>>

\* C7 (as claimed): a call whose move fails leaves the files, the
\* directories and the move log as they were, and the run goes on.
C7_FailedMoveIsNoOp ==
  [][(CallStep /\ last_call'.ret = None /\ ~AllTaken(last_call'.dst)) =>
       (files' = files /\ dirs' = dirs /\ moved_files' = moved_files /\ pc' # "crashed")]_vars

\* C8: a successful call whose destination did not exist returns dst, leaves
\* nothing at src, has the file at dst, and appends exactly the record
\* (src, dst) to the end of the move log.
C8_DirectMove ==
  [][(CallStep /\ ~Exists(last_call'.dst) /\ last_call'.ret # None) =>
       /\ last_call'.ret = last_call'.dst
       /\ last_call'.src \notin DOMAIN files'
       /\ last_call'.src \notin dirs'
       /\ last_call'.dst \in DOMAIN files'
       /\ files'[last_call'.dst] = files[last_call'.src]
       /\ moved_files' = Append(moved_files, <<last_call'.src, last_call'.dst>>)]_vars

\* the last call moved its file straight to dst and logged it
C8_Witness ==
  /\ calls > 0
  /\ last_call.ret = last_call.dst
  /\ last_call.ret # None
  /\ IsFile(last_call.dst)
  /\ ~Exists(last_call.src)
  /\ moved_files # <<>>
  /\ moved_files[Len(moved_files)] = <<last_call.src, last_call.dst>>

\* C9 (as claimed): the progress values are integers in 0..100 and never
\* decrease; a run that found a file at the root and has stopped has emitted
\* 100 as its last progress value, and finished_signal after it.
C9_Progress ==
  /\ \A i \in DOMAIN progress : progress[i] \in 0..100
  /\ \A i, j \in DOMAIN progress : i <= j => progress[i] <= progress[j]
  /\ finished > 0 /\ total_files > 0 => progress # <<>> /\ progress[Len(progress)] = 100
  /\ RunOver /\ total_files > 0 =>
       progress # <<>> /\ progress[Len(progress)] = 100 /\ finished = 1

\* where the file that started as the root file n is now
Locs(n) == {p \in DOMAIN files : files[p] = <<n>>}

\* n lies in "Miscellaneous", or in the folder of one of its keys together
\* with another root file that has the key
Placed(n) ==
  \E p \in Locs(n) :
    /\ Len(p) = 2
    /\ \/ p[1] = Miscellaneous
       \/ \E k \in KeysOf(n) :
            /\ FolderName(k) = p[1]
            /\ \E m \in init_root \ {n} :
                 /\ IsSubstring(k, Lower(SplitBase(m)))
                 /\ \E q \in Locs(m) : Len(q) = 2 /\ q[1] = p[1]

\* the files of the "Miscellaneous" iteration: those already logged into the
\* folder and those the loop has still to visit
MiscBatch ==
  {n \in init_root : \E i \in RecordsOf(n) : moved_files[i][2][1] = Miscellaneous}
    \cup Range(todo)

\* The "Miscellaneous" iteration takes every file still at the root, none of
\* which pairs with another one, and the loop is over after it.
MiscOnlyWhenNoGroup ==
  /\ pc = "misc" =>
       /\ remaining_files \subseteq Range(todo)
       /\ \A a, b \in MiscBatch : a # b => find_common_sequence(a, b) = NoMatch
  /\ pc = "after_loop" => remaining_files = {}

MediaSubfolders == {d \in dirs : Len(d) = 1 /\ d[1] \notin {Images, Videos}}

\* the files below the root, by the path they had at Init
Identities == {files[p] : p \in DOMAIN files}

\* Where the file id was when process_media_files was entered, in a run
\* without move failure and conflict exhaustion: a root file where its
\* grouping-phase record says, any other file where it was at Init.
MediaStartPath(id) ==
  IF Len(id) = 1 /\ RecordsOf(id[1]) # {}
    THEN moved_files[CHOOSE i \in RecordsOf(id[1]) : TRUE][2]
    ELSE id

\* process_media_files has returned, in a run without move failure and
\* conflict exhaustion
AfterMedia == pc = "finish" /\ media_sort_enabled /\ failures = 0 /\ ~Exhaustion

\* C11 (as claimed): after process_media_files no direct file of a visited
\* subfolder S is an image or a video; every image that was directly in S
\* is at S/Images/<name>, every video at S/Videos/<name>, and every other
\* direct file of S is where it was.
C11_MediaSplit ==
  AfterMedia =>
    \A S \in MediaSubfolders :
      /\ \A n \in FilesIn(S) : ~IsImage(n) /\ ~IsVideo(n)
      /\ \A id \in Identities :
           LET p0 == MediaStartPath(id)
               at == IF IsImage(p0[2]) THEN <<S[1], Images, p0[2]>>
                     ELSE IF IsVideo(p0[2]) THEN <<S[1], Videos, p0[2]>>
                     ELSE p0
           IN  (Len(p0) = 2 /\ p0[1] = S[1]) => (IsFile(at) /\ files[at] = id)

\* the file id is in folder d under the name n, or, when another file had
\* that name there already, under a name n-CF{k}
AtOrRenamed(id, d, n) ==
  \/ IsFile(Join(d, n)) /\ files[Join(d, n)] = id
  \/ /\ IsFile(Join(d, n))
     /\ MediaStartPath(files[Join(d, n)]) = Join(d, n)
     /\ \E k \in 1..MaxCF :
          IsFile(Join(d, CFName(n, k))) /\ files[Join(d, CFName(n, k))] = id

\* C11 (amended): the same, except that an image or video whose name was
\* already taken in S/Images or S/Videos is there under a name
\* {base}-CF{n}{ext}.
C11_MediaSplitOrRenamed ==
  AfterMedia =>
    \A S \in MediaSubfolders :
      /\ \A n \in FilesIn(S) : ~IsImage(n) /\ ~IsVideo(n)
      /\ \A id \in Identities :
           LET p0 == MediaStartPath(id)
           IN  (Len(p0) = 2 /\ p0[1] = S[1]) =>
                 IF IsImage(p0[2]) THEN AtOrRenamed(id, <<S[1], Images>>, p0[2])
                 ELSE IF IsVideo(p0[2]) THEN AtOrRenamed(id, <<S[1], Videos>>, p0[2])
                 ELSE IsFile(p0) /\ files[p0] = id

\* a folder whose image went to Images under a -CF name next to the image
\* that was there, whose video went to Videos, and whose other file stayed
C11_Witness ==
  /\ AfterMedia
  /\ \E S \in MediaSubfolders :
       /\ \E n \in FilesIn(<<S[1], Images>>) : files[<<S[1], Images, n>>] # <<S[1], Images, n>>
       /\ \E n \in FilesIn(<<S[1], Images>>) : files[<<S[1], Images, n>>] = <<S[1], Images, n>>
       /\ FilesIn(<<S[1], Videos>>) # {}
       /\ FilesIn(S) # {}

\* the folders the grouping phase of this run has logged a move into
GroupingFolders ==
  {Parent(moved_files[i][2]) : i \in {j \in DOMAIN moved_files : Len(moved_files[j][1]) = 1}}

\* C12 (as claimed): a move of process_media_files takes a file that lies
\* directly in a folder the grouping phase of this run has moved a file
\* into; it takes no file directly under the root and no file of a folder
\* that existed before the run and received nothing from it.
C12_MediaOnlyInGroupFolders ==
  [][(CallStep /\ pc \in {"m_img_move", "m_vid_move"} /\ files' # files) =>
       /\ Len(last_call'.src) = 2
       /\ Parent(last_call'.src) \in GroupingFolders
       /\ ~(Parent(last_call'.src) \in InitDirs
              /\ Parent(last_call'.src) \notin GroupingFolders)]_vars

\* C14: a run that finds no regular file directly under the root emits the
\* "no files" status and finished_signal and nothing else, creates no
\* folder, moves no file and leaves the move log empty, with or without
\* media split and whatever the subfolders of the root hold.
C14_EmptyInput ==
  (init_root = {} /\ pc # "idle" /\ undos = 0) =>
    /\ pc = "done"
    /\ status = <<"NoFiles">>
    /\ finished = 1
    /\ progress = <<>>
    /\ DOMAIN files = InitPaths
    /\ \A p \in InitPaths : files[p] = p
    /\ dirs = InitDirs
    /\ moved_files = <<>>
    /\ calls = 0

\* a run with media split over a root without files, whose subfolder holds
\* an image and a video, has ended
C14_Witness ==
  /\ init_root = {}
  /\ pc = "done"
  /\ undos = 0
  /\ finished = 1
  /\ media_sort_enabled
  /\ \E d \in dirs : Len(d) = 1 /\ (\E n \in FilesIn(d) : IsImage(n))
                                /\ (\E n \in FilesIn(d) : IsVideo(n))

\* the longest common contiguous substring of a and b (of several of that
\* length, the one that comes first in a)
LongestCommon(a, b) ==
  LET len(i) == LET ls == {CommonPrefixLen(a, b, {}, i, j) : j \in 1..Len(b)} \cup {0}
                IN  CHOOSE k \in ls : \A m \in ls : m <= k
      lens == {len(i) : i \in 1..Len(a)} \cup {0}
      k == CHOOSE n \in lens : \A m \in lens : m <= n
      at == {i \in 1..Len(a) : len(i) = k} \cup {Len(a) + 1}
  IN  IF k = 0 THEN <<>> ELSE Slice(a, CHOOSE i \in at : \A m \in at : i <= m, k)

\* C15 (as claimed): find_common_sequence returns the longest common
\* contiguous substring of the lower-cased base names exactly when it has at
\* least 4 characters and holds 4 consecutive alphanumeric characters, and
\* no match otherwise; a returned value is a substring of both names.
C15_LongestCommonSubstring ==
  pc = "fcs_ret" =>
    LET name1 == Lower(SplitBase(str1))
        name2 == Lower(SplitBase(str2))
        longest == LongestCommon(name1, name2)
    IN  /\ common = IF Len(longest) >= MinLength /\ HasAlnumRun(longest)
                      THEN longest ELSE NoMatch
        /\ common # NoMatch => IsSubstring(common, name1) /\ IsSubstring(common, name2)

\* C16: whether or not the restore of a record fails, undo_sorting goes on
\* to the record before it; the cleanup leaves the directories it cannot
\* delete and deletes no file, and ends with the finished signal of the
\* UndoThread; a started undo always gets there.
C16_UndoBestEffort ==
  /\ [][(upc = "undo" /\ uidx > 0) =>
          (upc' = "undo" /\ uidx' = uidx - 1 /\ moved_files' = moved_files)]_vars
  /\ [][(upc = "undo" /\ uidx = 0) =>
          /\ upc' = "done"
          /\ undo_finished' = undo_finished + 1
          /\ files' = files
          /\ dirs' \subseteq dirs
          /\ \A d \in dirs \ dirs' : Hollow(d)]_vars
  /\ [](upc = "undo" => <>(upc = "done" /\ undo_finished > 0))

\* an undo has finished in which the restore of one record failed (its file
\* is still where the run put it) and a record before it in the log was
\* restored all the same
C16_Witness ==
  /\ upc = "done"
  /\ undo_finished = 1
  /\ \E i, j \in DOMAIN moved_files :
       /\ i < j
       /\ IsFile(moved_files[j][2])
       /\ files[moved_files[j][2]] = moved_files[j][1]
       /\ IsFile(moved_files[i][1])
       /\ files[moved_files[i][1]] = moved_files[i][1]
       /\ ~Exists(moved_files[i][2])

\* the groups build_similarity_groups can return for the files S, as
\* (key, members) pairs, over the orders in which S can be listed
GroupsOf(S) ==
  UNION {{<<k, GroupMembers(ord, k)>> : k \in GroupKeys(ord)} : ord \in Perms(S)}

\* the groups of one listing order of S
GroupsOfOrder(ord) == {<<k, GroupMembers(ord, k)>> : k \in GroupKeys(ord)}

\* C17: in an iteration of the grouping loop that finds a group, the group
\* that is consumed has the largest member count of all groups built from
\* the remaining files and, among the groups of that count, a key of the
\* greatest length; its members are unprocessed files directly under the
\* root.
C17_LargestGroupFirst ==
  [][(pc = "loop" /\ pc' = "group") =>
       /\ \E ord \in Perms(remaining_files) : \E g \in GroupsOfOrder(ord) :
            /\ Range(todo') = g[2]
            /\ dest' = Join(Root, FolderName(g[1]))
            /\ \A h \in GroupsOfOrder(ord) :
                 /\ Cardinality(h[2]) <= Cardinality(g[2])
                 /\ Cardinality(h[2]) = Cardinality(g[2]) => Len(h[1]) <= Len(g[1])
       /\ \A f \in Range(todo') : f \notin processed_files /\ IsFile(Join(Root, f))]_vars

\* a group was chosen for its longer key over a group of the same size
C17_Witness ==
  /\ pc = "group"
  /\ processed_files = {}
  /\ Range(todo) \subseteq get_all_files
  /\ \E g \in GroupsOf(get_all_files) :
       /\ Cardinality(g[2]) = Len(todo)
       /\ g[2] # Range(todo)
       /\ Len(g[1]) < Len(dest[1])

\* the pairs (i, j) of log positions that record the two moves of one file:
\* root -> folder in the grouping phase, folder -> Images or Videos in the
\* media phase
TwiceMoved ==
  {pr \in (DOMAIN moved_files) \X (DOMAIN moved_files) :
     /\ pr[1] < pr[2]
     /\ Len(moved_files[pr[1]][1]) = 1
     /\ moved_files[pr[2]][1] = moved_files[pr[1]][2]}

\* C18 (as claimed): after a completed run and a completed undo (no move
\* failure), every file that the run moved twice is back at its original
\* root path, and the folder it was grouped into, if the run created it, is
\* gone together with its Images and Videos subfolders.
C18_UndoNewestFirst ==
  (finished = 1 /\ undo_finished = 1 /\ upc = "done" /\ failures = 0) =>
    \A pr \in TwiceMoved :
      LET original == moved_files[pr[1]][1]
          folder == Parent(moved_files[pr[1]][2])
      IN  /\ IsFile(original)
          /\ files[original] = original
          /\ ~Exists(moved_files[pr[1]][2])
          /\ ~Exists(moved_files[pr[2]][2])
          /\ folder \notin InitDirs =>
               /\ folder \notin dirs
               /\ Join(folder, Images) \notin dirs
               /\ Join(folder, Videos) \notin dirs

\* the log positions of the moves of process_media_files
MediaRecords == {i \in DOMAIN moved_files : Len(moved_files[i][1]) = 2}

\* C19 (as claimed): in the log every grouping-phase move comes before
\* every media-phase move; there are media-phase moves only when
\* media_sort_enabled is true; a run that has stopped has emitted
\* finished_signal exactly once; after finished_signal the run makes no
\* move and no log append.
C19_PhaseOrder ==
  /\ [](\A i \in MediaRecords : \A j \in DOMAIN moved_files \ MediaRecords : j < i)
  /\ [](MediaRecords # {} => media_sort_enabled)
  /\ [](finished <= 1)
  /\ [](RunOver => finished = 1)
  /\ [][finished = 1 => (moved_files' = moved_files /\ calls' = calls)]_vars

\* C13 (as claimed): MainWindow starts an UndoThread on its SortingThread
\* only after that SortingThread has emitted finished_signal, which is the
\* last statement of run() (pc = "done").
C13_UndoOnlyAfterFinished ==
  [][(upc' = "undo" /\ upc # "undo") => pc = "done"]_vars

\* C20 (as claimed): a click on "Sort Files" while the SortingThread of the
\* window holds a non-empty log keeps that log as previous_session; once an
\* undo that was clicked while previous_session was set has completed (no
\* move failure, no sort running), every root file of that log is back at
\* its original path.
C20_PreviousSessionUndone ==
  /\ [][(sorts' = sorts + 1 /\ sorting_thread /\ moved_files # <<>>) =>
          previous_session' = moved_files]_vars
  /\ []((upc = "done" /\ undone_session # <<>> /\ failures = 0 /\ RunOver) =>
          \A i \in DOMAIN undone_session :
            LET original == undone_session[i][1]
            IN  Len(original) = 1 => (IsFile(original) /\ files[original] = original))

\* C21 (as claimed): MainWindow starts a new SortingThread only when no
\* SortingThread it started before is still running.
C21_OneSortWorker ==
  [][sorts' = sorts + 1 => ~SortRunning]_vars

\* a step in which undo_sorting moves the file of record uidx
RestoreStep == upc = "undo" /\ uidx > 0 /\ uidx' = uidx - 1 /\ files' # files

\* every completed move and every restore goes to a path at which nothing
\* exists
MovesToVacantPath ==
  /\ (CallStep /\ last_call'.ret # None) => ~Exists(last_call'.ret)
  /\ RestoreStep => ~Exists(moved_files[uidx][1])

\* C22 (as claimed): the files in the tree under the root are always the
\* files that were there at the start, and every move by
\* move_file_handling_conflicts and every restore by undo_sorting goes to a
\* path at which nothing exists.
C22_NoFileLost ==
  /\ [](Identities = InitPaths)
  /\ [][MovesToVacantPath]_vars

====
